---- MODULE Spec2Model ----
(***************************************************************************)
(* Model of src/main.py: the Streamlit dashboard script that loads the     *)
(* per-school environment CSV files and the growth-result workbook from    *)
(* data/, stops when a load returned None, and otherwise renders three     *)
(* tabs of aggregates.                                                     *)
(*                                                                         *)
(* Strings are sequences of Unicode code points, so that NFC/NFD           *)
(* normalisation, the glob suffix test and the substring test are computed *)
(* the way the interpreter computes them.  A DataFrame is the sequence of  *)
(* its rows.  An Optional dict is a record [none, dict, keys], keys being  *)
(* the keys in insertion order.  A float is an IEEE-754 double.            *)
(***************************************************************************)
EXTENDS Integers, Sequences, FiniteSets, TLC

VARIABLES
    dir_exists,     \* Path("data").exists()
    listing,        \* the entries of data/, in the order the directory scan yields them
    env_data,       \* module-level env_data (line 103)
    growth_data,    \* module-level growth_data (line 104)
    errors,         \* every st.error shown so far, in order
    pc,             \* position of the script run
    metrics,        \* the values of the four metric cards of tab 1
    env_summary,    \* tab 2: per-school environment means
    growth_summary, \* tab 3: per-school growth means, sorted by EC
    key_error       \* the key of the KeyError that ended the run, 0 when none

vars == <<dir_exists, listing, env_data, growth_data, errors, pc,
          metrics, env_summary, growth_summary, key_error>>

(***************************************************************************)
(* Unicode normalisation of Hangul (unicodedata.normalize): the            *)
(* algorithmic syllable decomposition and composition of the Unicode       *)
(* standard, which is all NFC/NFD do to the strings of this program.       *)
(***************************************************************************)
SBase == 44032
LBase == 4352
VBase == 4449
TBase == 4519
LCount == 19
VCount == 21
TCount == 28
NCount == 588
SCount == 11172

IsSyllable(c) == c >= SBase /\ c < SBase + SCount
IsL(c) == c >= LBase /\ c < LBase + LCount
IsV(c) == c >= VBase /\ c < VBase + VCount
IsT(c) == c > TBase /\ c < TBase + TCount
IsLV(c) == IsSyllable(c) /\ (c - SBase) % TCount = 0

\* canonical decomposition of one code point
Decompose(c) ==
    IF IsSyllable(c)
    THEN LET si == c - SBase
             l == LBase + (si \div NCount)
             v == VBase + ((si % NCount) \div TCount)
             t == TBase + (si % TCount)
         IN IF t = TBase THEN <<l, v>> ELSE <<l, v, t>>
    ELSE <<c>>

RECURSIVE NFD(_)
NFD(s) == IF s = <<>> THEN <<>> ELSE Decompose(Head(s)) \o NFD(Tail(s))

\* canonical composition of a decomposed string, left to right
RECURSIVE ComposeFrom(_, _)
ComposeFrom(done, rest) ==
    IF rest = <<>> THEN done
    ELSE LET c == Head(rest)
             n == Len(done)
             last == IF n = 0 THEN 0 ELSE done[n]
         IN IF n > 0 /\ IsL(last) /\ IsV(c)
            THEN ComposeFrom(
                     [done EXCEPT ![n] =
                         SBase + ((last - LBase) * VCount + (c - VBase)) * TCount],
                     Tail(rest))
            ELSE IF n > 0 /\ IsLV(last) /\ IsT(c)
            THEN ComposeFrom([done EXCEPT ![n] = last + (c - TBase)], Tail(rest))
            ELSE ComposeFrom(Append(done, c), Tail(rest))

NFC(s) == ComposeFrom(<<>>, NFD(s))

\* Python's `needle in hay` on strings
Contains(needle, hay) ==
    \E i \in 0..(Len(hay) - Len(needle)) :
        SubSeq(hay, i + 1, i + Len(needle)) = needle

\* fnmatch of the pattern "*" + suffix: a plain code-point comparison
EndsWith(name, suffix) ==
    /\ Len(name) >= Len(suffix)
    /\ SubSeq(name, Len(name) - Len(suffix) + 1, Len(name)) = suffix

\* Path.stem: the name without its last suffix
Stem(name) ==
    LET dots == {i \in 2..Len(name) : name[i] = 46}
    IN IF dots = {} \/ name[Len(name)] = 46 THEN name
       ELSE SubSeq(name, 1, (CHOOSE i \in dots : \A j \in dots : j <= i) - 1)

(***************************************************************************)
(* Configuration (lines 26-32) and the literals of the two glob patterns.  *)
(* ec is in tenths of dS/m.                                                *)
(***************************************************************************)
SCHOOL_EC == <<
    [name |-> <<49569, 46020, 44256>>, ec |-> 10],
    [name |-> <<54616, 45720, 44256>>, ec |-> 20],
    [name |-> <<50500, 46972, 44256>>, ec |-> 40],
    [name |-> <<46041, 49328, 44256>>, ec |-> 80] >>

Schools == 1..Len(SCHOOL_EC)

\* "환경데이터.csv"
ENV_SUFFIX == <<54872, 44221, 45936, 51060, 53552, 46, 99, 115, 118>>
\* "생육결과데이터.xlsx"
GROWTH_SUFFIX == <<49373, 50977, 44208, 44284, 45936, 51060, 53552, 46, 120, 108, 115, 120>>

\* A dict is its mapping (dict) and its keys in insertion order (keys), the
\* order in which it is iterated.
None == [none |-> TRUE, dict |-> <<>>, keys |-> <<>>]
Some(d) == [none |-> FALSE, dict |-> d.dict, keys |-> d.keys]
\* `d if d else None`
OrNone(d) == IF d.keys = <<>> THEN None ELSE Some(d)
\* d[k] = v on a dict: a new key goes last, a known key keeps its place
Put(d, k, v) ==
    [d EXCEPT !.dict = [x \in (DOMAIN d.dict) \cup {k} |-> IF x = k THEN v ELSE d.dict[x]],
              !.keys = IF k \in DOMAIN d.dict THEN @ ELSE Append(@, k)]
Keys(r) == DOMAIN r.dict

\* lines 54-55 and 88-89
school_nfc == [k \in Schools |-> NFC(SCHOOL_EC[k].name)]
school_nfd == [k \in Schools |-> NFD(SCHOOL_EC[k].name)]

\* line 57 and line 91: the two normalisation forms are tested separately
SchoolMatches(k, text_nfc, text_nfd) ==
    \/ Contains(school_nfc[k], text_nfc)
    \/ Contains(school_nfd[k], text_nfd)

\* line 45: data_dir.glob("*환경데이터.csv")
EnvGlob(dir) == SelectSeq(dir, LAMBDA f : EndsWith(f.name, ENV_SUFFIX))
\* line 73: data_dir.glob("*생육결과데이터.xlsx")
GrowthGlob(dir) == SelectSeq(dir, LAMBDA f : EndsWith(f.name, GROWTH_SUFFIX))

EnvLoadError(f) == [fn |-> "load_environment_data", kind |-> "load_failed", file |-> f.name]

\* EnvMatchFile, were it to add the school to every record it stores
RECURSIVE EnvMatchFileTagging(_, _, _, _, _)
EnvMatchFileTagging(f, filename_nfc, filename_nfd, acc, k) ==
    IF k > Len(SCHOOL_EC) THEN acc
    ELSE IF SchoolMatches(k, filename_nfc, filename_nfd)
    THEN IF f.parses
         THEN Put(acc, k,
                  [j \in 1..Len(f.table) |->
                      [c \in (DOMAIN f.table[j]) \cup {"school"} |->
                          IF c = "school" THEN k ELSE f.table[j][c]]])
         ELSE EnvMatchFileTagging(f, filename_nfc, filename_nfd,
                                  [acc EXCEPT !.errors = Append(@, EnvLoadError(f))], k + 1)
    ELSE EnvMatchFileTagging(f, filename_nfc, filename_nfd, acc, k + 1)

\* lines 53-63: the inner loop over SCHOOL_EC for one file, from school k on.
\* A successful read stores the table and breaks; a failed read reports the
\* error and the loop goes on to the next school.
RECURSIVE EnvMatchFile(_, _, _, _, _)
EnvMatchFile(f, filename_nfc, filename_nfd, acc, k) ==
    IF k > Len(SCHOOL_EC) THEN acc
    ELSE IF SchoolMatches(k, filename_nfc, filename_nfd)
    THEN IF f.parses
         THEN Put(acc, k, f.table)
         ELSE EnvMatchFile(f, filename_nfc, filename_nfd,
                           [acc EXCEPT !.errors = Append(@, EnvLoadError(f))], k + 1)
    ELSE EnvMatchFile(f, filename_nfc, filename_nfd, acc, k + 1)

\* lines 47-63: the loop over the globbed files
RECURSIVE EnvScan(_, _)
EnvScan(files, acc) ==
    IF files = <<>> THEN acc
    ELSE LET f == Head(files)
             filename == Stem(f.name)
         IN EnvScan(Tail(files), EnvMatchFile(f, NFC(filename), NFD(filename), acc, 1))

\* load_environment_data, were it to give up unless every school was found
load_environment_data_strict(exists, dir) ==
    IF ~exists
    THEN [result |-> None,
          errors |-> <<[fn |-> "load_environment_data", kind |-> "no_data_dir", file |-> <<>>]>>]
    ELSE LET acc == EnvScan(EnvGlob(dir), [dict |-> <<>>, keys |-> <<>>, errors |-> <<>>])
         IN [result |-> IF DOMAIN acc.dict = Schools THEN Some(acc) ELSE None,
             errors |-> acc.errors]

\* lines 35-65: the result and the errors shown
load_environment_data(exists, dir) ==
    IF ~exists
    THEN [result |-> None,
          errors |-> <<[fn |-> "load_environment_data", kind |-> "no_data_dir", file |-> <<>>]>>]
    ELSE LET acc == EnvScan(EnvGlob(dir), [dict |-> <<>>, keys |-> <<>>, errors |-> <<>>])
         IN [result |-> OrNone(acc), errors |-> acc.errors]

GrowthError(kind) == [fn |-> "load_growth_data", kind |-> kind, file |-> <<>>]

\* GrowthMatchSheet, were a failed read_excel caught per sheet and skipped
RECURSIVE GrowthMatchSheetIsolated(_, _, _, _, _)
GrowthMatchSheetIsolated(sh, sheet_nfc, sheet_nfd, acc, k) ==
    IF k > Len(SCHOOL_EC) THEN acc
    ELSE IF SchoolMatches(k, sheet_nfc, sheet_nfd)
    THEN IF sh.parses
         THEN Put(acc, k, sh.table)
         ELSE acc
    ELSE GrowthMatchSheetIsolated(sh, sheet_nfc, sheet_nfd, acc, k + 1)

\* lines 87-94: the inner loop over SCHOOL_EC for one sheet, from school k on.
\* read_excel is inside no try of its own: when it raises, the exception
\* leaves both loops (raised), whatever acc.dict holds by then.
RECURSIVE GrowthMatchSheet(_, _, _, _, _)
GrowthMatchSheet(sh, sheet_nfc, sheet_nfd, acc, k) ==
    IF k > Len(SCHOOL_EC) THEN acc
    ELSE IF SchoolMatches(k, sheet_nfc, sheet_nfd)
    THEN IF sh.parses
         THEN Put(acc, k, sh.table)
         ELSE [acc EXCEPT !.raised = TRUE]
    ELSE GrowthMatchSheet(sh, sheet_nfc, sheet_nfd, acc, k + 1)

\* lines 83-94: the loop over excel_file.sheet_names
RECURSIVE GrowthScan(_, _)
GrowthScan(shs, acc) ==
    IF shs = <<>> \/ acc.raised THEN acc
    ELSE LET sh == Head(shs)
         IN GrowthScan(Tail(shs), GrowthMatchSheet(sh, NFC(sh.name), NFD(sh.name), acc, 1))

\* load_growth_data, were the missing workbook not reported
load_growth_data_silent(dir) ==
    LET xlsx_files == GrowthGlob(dir)
    IN IF xlsx_files = <<>>
       THEN [result |-> None, errors |-> <<>>]
       ELSE LET book == xlsx_files[1]
                acc == IF book.parses
                       THEN GrowthScan(book.table,
                                       [dict |-> <<>>, keys |-> <<>>, raised |-> FALSE])
                       ELSE [dict |-> <<>>, keys |-> <<>>, raised |-> TRUE]
            IN IF acc.raised
               THEN [result |-> None, errors |-> <<GrowthError("load_failed")>>]
               ELSE [result |-> OrNone(acc), errors |-> <<>>]

\* lines 68-99: the result and the errors shown.  An entry of the listing
\* that is a workbook holds its sheets as its table.
load_growth_data(dir) ==
    LET xlsx_files == GrowthGlob(dir)
    IN IF xlsx_files = <<>>
       THEN [result |-> None, errors |-> <<GrowthError("file_not_found")>>]
       ELSE LET book == xlsx_files[1]
                acc == IF book.parses
                       THEN GrowthScan(book.table,
                                       [dict |-> <<>>, keys |-> <<>>, raised |-> FALSE])
                       ELSE [dict |-> <<>>, keys |-> <<>>, raised |-> TRUE]
            IN IF acc.raised
               THEN [result |-> None, errors |-> <<GrowthError("load_failed")>>]
               ELSE [result |-> OrNone(acc), errors |-> <<>>]

(***************************************************************************)
(* Aggregation.  Column values are non-negative integers; a mean is a      *)
(* float, an IEEE-754 binary64 as numpy and Python compute it, every       *)
(* operation rounded to nearest, ties to even.  A float is NaN, zero       *)
(* (exp = hi = lo = 0) or the value (hi * 2^26 + lo) * 2^exp with a        *)
(* significand of 53 bits: 2^26 <= hi < 2^27 and 0 <= lo < 2^26.           *)
(***************************************************************************)
Limb == 67108864

NaN == [nan |-> TRUE, exp |-> 0, hi |-> 0, lo |-> 0]
Zero == [nan |-> FALSE, exp |-> 0, hi |-> 0, lo |-> 0]
Float(e, h, l) == [nan |-> FALSE, exp |-> e, hi |-> h, lo |-> l]
IsZero(a) == ~a.nan /\ a.hi = 0

RECURSIVE BitLength(_)
BitLength(n) == IF n = 0 THEN 0 ELSE 1 + BitLength(n \div 2)

\* the next float above a positive one
NextUp(e, h, l) ==
    IF l + 1 < Limb THEN Float(e, h, l + 1)
    ELSE IF h + 1 < 2 * Limb THEN Float(e, h + 1, 0)
    ELSE Float(e + 1, Limb, 0)

\* the rounding of a value between two neighbouring floats: rest tells
\* whether what lies beyond the significand h:l is below (-1), equal to (0)
\* or above (1) half a unit in the last place
Round(e, h, l, rest) ==
    IF rest > 0 \/ (rest = 0 /\ l % 2 = 1) THEN NextUp(e, h, l) ELSE Float(e, h, l)

\* float(n), exact for an integer of up to 27 bits
FromInt(n) ==
    IF n = 0 THEN Zero
    ELSE LET b == BitLength(n) IN Float(b - 53, n * 2^(27 - b), 0)

\* a / k for a float a and an integer 1 <= k < 32: the long division of the
\* significand, extended by a limb of zeros, then the rounding to 53 bits
FloatDivInt(a, k) ==
    IF a.nan THEN NaN
    ELSE IF IsZero(a) THEN Zero
    ELSE LET q1 == a.hi \div k
             c2 == (a.hi % k) * Limb + a.lo
             q2 == c2 \div k
             c3 == (c2 % k) * Limb
             q3 == c3 \div k
             r3 == c3 % k
             t == BitLength(q1) - 1
             cut == 2^t
             up == 2^(26 - t)
             dropped == q3 % cut
             half == cut \div 2
             rest == IF dropped > half \/ (dropped = half /\ r3 > 0) THEN 1
                     ELSE IF dropped = half THEN 0
                     ELSE -1
         IN Round(a.exp - 26 + t,
                  q1 * up + q2 \div cut,
                  (q2 % cut) * up + q3 \div cut,
                  rest)

\* the significand of y shifted right by d bits: the bits kept (hi, lo)
\* and what was shifted out (part: 0 nothing, 1 less than half of the last
\* bit kept, 2 half of it, 3 more)
Shifted(y, d) ==
    IF d = 0 THEN [hi |-> y.hi, lo |-> y.lo, part |-> 0]
    ELSE IF d <= 26
    THEN LET cut == 2^d
             dropped == y.lo % cut
             half == cut \div 2
         IN [hi |-> y.hi \div cut,
             lo |-> (y.hi % cut) * 2^(26 - d) + y.lo \div cut,
             part |-> IF dropped = 0 THEN 0
                      ELSE IF dropped < half THEN 1
                      ELSE IF dropped = half THEN 2
                      ELSE 3]
    ELSE IF d <= 53
    THEN LET cut == 2^(d - 26)
             dropped == y.hi % cut
             half == cut \div 2
         IN [hi |-> 0,
             lo |-> y.hi \div cut,
             part |-> IF dropped = 0 /\ y.lo = 0 THEN 0
                      ELSE IF dropped < half THEN 1
                      ELSE IF dropped = half /\ y.lo = 0 THEN 2
                      ELSE 3]
    ELSE [hi |-> 0, lo |-> 0, part |-> 1]

\* a + b for two non-negative floats
FloatAdd(a, b) ==
    IF a.nan \/ b.nan THEN NaN
    ELSE IF IsZero(a) THEN b
    ELSE IF IsZero(b) THEN a
    ELSE LET x == IF a.exp >= b.exp THEN a ELSE b
             y == IF a.exp >= b.exp THEN b ELSE a
             s == Shifted(y, x.exp - y.exp)
             l == x.lo + s.lo
             h == x.hi + s.hi + l \div Limb
         IN IF h < 2 * Limb
            THEN Round(x.exp, h, l % Limb,
                       IF s.part = 3 THEN 1 ELSE IF s.part = 2 THEN 0 ELSE -1)
            ELSE Round(x.exp + 1, h \div 2, (h % 2) * (Limb \div 2) + (l % Limb) \div 2,
                       IF l % 2 = 0 THEN -1 ELSE IF s.part = 0 THEN 0 ELSE 1)

\* float `>`: every comparison with NaN is False
FloatGt(a, b) ==
    /\ ~a.nan /\ ~b.nan
    /\ ~IsZero(a)
    /\ \/ IsZero(b)
       \/ a.exp > b.exp
       \/ a.exp = b.exp /\ a.hi > b.hi
       \/ a.exp = b.exp /\ a.hi = b.hi /\ a.lo > b.lo

Column(df, field) == [j \in 1..Len(df) |-> df[j][field]]

RECURSIVE Flatten(_)
Flatten(ss) == IF ss = <<>> THEN <<>> ELSE Head(ss) \o Flatten(Tail(ss))

RECURSIVE SumSeq(_)
SumSeq(s) == IF s = <<>> THEN 0 ELSE Head(s) + SumSeq(Tail(s))

\* Series.mean() of an integer column: the sum, exact as a float, divided
\* by the count; NaN for an empty column
Mean(col) == IF col = <<>> THEN NaN ELSE FloatDivInt(FromInt(SumSeq(col)), Len(col))

\* sum(...) of Python: from 0, one addition per item, left to right
RECURSIVE SumFloat(_, _)
SumFloat(s, acc) == IF s = <<>> THEN acc ELSE SumFloat(Tail(s), FloatAdd(acc, Head(s)))

\* AverageOfMeans, were the tables concatenated before averaging
AverageOfMeansPooled(env, field) ==
    Mean(Flatten([i \in 1..Len(env.keys) |-> Column(env.dict[env.keys[i]], field)]))

\* lines 149-150: sum(env_data[s][field].mean() for s in env_data) / len(env_data),
\* the schools taken in the order env_data was filled
AverageOfMeans(env, field) ==
    FloatDivInt(SumFloat([i \in 1..Len(env.keys) |-> Mean(Column(env.dict[env.keys[i]], field))],
                         Zero),
                Len(env.keys))

\* line 148
total_plants(growth) ==
    SumSeq([i \in 1..Len(growth.keys) |-> Len(growth.dict[growth.keys[i]])])

\* lines 153-154
avg_weights(growth) == [k \in Schools |-> Mean(Column(growth.dict[k], "fresh_weight"))]

\* MaxFrom, were a later item taken when it is not smaller
RECURSIVE MaxFromLast(_, _, _)
MaxFromLast(w, best, k) ==
    IF k > Len(w) THEN best
    ELSE MaxFromLast(w, IF ~FloatGt(w[best], w[k]) THEN k ELSE best, k + 1)

\* max(iterable, key=...): the first item is kept until a later one is greater
RECURSIVE MaxFrom(_, _, _)
MaxFrom(w, best, k) ==
    IF k > Len(w) THEN best
    ELSE MaxFrom(w, IF FloatGt(w[k], w[best]) THEN k ELSE best, k + 1)

\* line 155
optimal_school(w) == MaxFrom(w, 1, 2)

\* the first school of SCHOOL_EC that is no key of d: the KeyError of a
\* comprehension over SCHOOL_EC that indexes d[school]
FirstMissing(d) == CHOOSE k \in Schools \ DOMAIN d : \A j \in Schools \ DOMAIN d : k <= j

NoMetrics == [shown |-> FALSE]

\* lines 148-161
Metrics(env, growth) ==
    LET best == optimal_school(avg_weights(growth))
    IN [shown |-> TRUE,
        total_plants |-> total_plants(growth),
        avg_temp |-> AverageOfMeans(env, "temperature"),
        avg_humidity |-> AverageOfMeans(env, "humidity"),
        optimal_school |-> best,
        optimal_ec |-> SCHOOL_EC[best].ec]

\* lines 170-179
EnvSummary(env) ==
    [k \in Schools |->
        [temperature |-> Mean(Column(env[k], "temperature")),
         humidity |-> Mean(Column(env[k], "humidity")),
         ph |-> Mean(Column(env[k], "ph")),
         ec |-> Mean(Column(env[k], "ec")),
         target_ec |-> SCHOOL_EC[k].ec]]

\* .sort_values('EC'): the schools by ascending target EC
RECURSIVE SortByEC(_)
SortByEC(S) ==
    IF S = {} THEN <<>>
    ELSE LET m == CHOOSE k \in S : \A j \in S : SCHOOL_EC[k].ec <= SCHOOL_EC[j].ec
         IN <<m>> \o SortByEC(S \ {m})

\* lines 328-337
GrowthSummary(growth) ==
    LET order == SortByEC(Schools)
    IN [i \in 1..Len(order) |->
          [school |-> order[i],
           fresh_weight |-> Mean(Column(growth[order[i]], "fresh_weight")),
           leaf_count |-> Mean(Column(growth[order[i]], "leaf_count")),
           shoot_length |-> Mean(Column(growth[order[i]], "shoot_length")),
           plants |-> Len(growth[order[i]]),
           ec |-> SCHOOL_EC[order[i]].ec]]

(***************************************************************************)
(* The contents of data/ a run may find.  Each school has at most one      *)
(* environment file, "<school>_환경데이터.csv", and there is at most one   *)
(* workbook, "4개교_생육결과데이터.xlsx", with at most one sheet per       *)
(* school, named after the school.  A name is stored composed ("nfc") or   *)
(* decomposed ("nfd"); "unreadable" is a composed name whose content the   *)
(* parser rejects.  The directory scan yields the entries in an order of   *)
(* its own.                                                                *)
(***************************************************************************)
\* the records of the environment files of a directory, altogether
MaxRecords == 3
\* the records of the sheets of a workbook, altogether
MaxWeights == 5
Readings == {1, 2}

Forms == {"nfc", "nfd", "unreadable", "absent"}

EnvFileName(k) == SCHOOL_EC[k].name \o <<95>> \o ENV_SUFFIX
BookName == <<52, 44060, 44368, 95>> \o GROWTH_SUFFIX
\* the names of the source are composed
OnDisk(form, name) == IF form = "nfd" THEN NFD(name) ELSE name

EnvRows(temps) ==
    [j \in 1..Len(temps) |->
        [temperature |-> temps[j], humidity |-> 40 + temps[j], ph |-> 6, ec |-> 2 * temps[j]]]
GrowthRows(weights) ==
    [j \in 1..Len(weights) |->
        [fresh_weight |-> weights[j], leaf_count |-> 3 + weights[j], shoot_length |-> 10 * weights[j]]]

Entry(form, name, table) ==
    IF form = "absent" THEN <<>>
    ELSE <<[name |-> OnDisk(form, name),
            parses |-> form # "unreadable",
            table |-> IF form = "unreadable" THEN <<>> ELSE table]>>

\* the entries of data/, before the order of the scan is chosen
Directory(envForm, temps, bookForm, sheetForm, weights) ==
    Flatten([k \in Schools |-> Entry(envForm[k], EnvFileName(k), EnvRows(temps[k]))])
    \o Entry(bookForm, BookName,
             Flatten([k \in Schools |->
                 Entry(sheetForm[k], SCHOOL_EC[k].name, GrowthRows(weights[k]))]))

NominalTemps == [k \in Schools |-> <<20 + k>>]
NominalWeights == [k \in Schools |-> <<k>>]
AllNfc == [k \in Schools |-> "nfc"]

Presence == {"nfc", "absent"}

\* every order in which os.scandir may yield the entries
ScanOrders(entries) ==
    {[i \in 1..Len(entries) |-> entries[p[i]]] : p \in Permutations(1..Len(entries))}

RECURSIVE SeqsUpTo(_, _)
SeqsUpTo(S, n) ==
    IF n = 0 THEN {<<>>}
    ELSE LET shorter == SeqsUpTo(S, n - 1)
         IN shorter \cup {Append(s, x) : s \in {t \in shorter : Len(t) = n - 1}, x \in S}

\* the columns a table may hold: up to n readings, listed in ascending
\* order (no aggregate of the program depends on the order of the rows)
Columns(n) ==
    {s \in SeqsUpTo(Readings, n) : \A i \in 1..(Len(s) - 1) : s[i] <= s[i + 1]}

\* a column for each school of S, of n readings altogether at most
RECURSIVE Tables(_, _)
Tables(S, n) ==
    IF S = {} THEN {<<>>}
    ELSE LET k == CHOOSE x \in S : TRUE
         IN UNION {{[x \in S |-> IF x = k THEN c ELSE t[x]] :
                        t \in Tables(S \ {k}, n - Len(c))} : c \in Columns(n)}

\* the columns of the schools of S, and none for the others
Among(S, cols) == [k \in Schools |-> IF k \in S THEN cols[k] ELSE <<>>]
Only(S) == [k \in Schools |-> IF k \in S THEN "nfc" ELSE "absent"]

Fresh ==
    /\ env_data = None
    /\ growth_data = None
    /\ errors = <<>>
    /\ pc = "start"
    /\ metrics = NoMetrics
    /\ env_summary = <<>>
    /\ growth_summary = <<>>
    /\ key_error = 0

\* the directories of Init: the environment files vary beside a complete or
\* a missing workbook; the workbook varies beside complete environment
\* files; its sheets vary beside complete environment files; or files and
\* sheets are missing on both sides
Scenario(envForm, bookForm, sheetForm) ==
    \/ sheetForm = AllNfc /\ (bookForm \in Presence \/ envForm = AllNfc)
    \/ envForm = AllNfc /\ bookForm = "nfc"
    \/ /\ bookForm = "nfc"
       /\ \A k \in Schools : envForm[k] \in Presence /\ sheetForm[k] \in Presence

\* no data/ at all, or data/ in one of the scenarios, with the nominal
\* tables, scanned in any order
Init ==
    /\ Fresh
    /\ \/ /\ dir_exists = FALSE
          /\ listing = <<>>
       \/ /\ dir_exists = TRUE
          /\ \E envForm \in [Schools -> Forms], bookForm \in Forms,
                sheetForm \in [Schools -> Forms] :
                /\ Scenario(envForm, bookForm, sheetForm)
                /\ listing \in ScanOrders(Directory(envForm, NominalTemps, bookForm,
                                                  sheetForm, NominalWeights))

\* data/ with composed, readable files, scanned in any order: the complete
\* nominal directory; the environment files of some schools, not all, with
\* varying columns beside the nominal workbook; or one nominal environment
\* file beside a workbook with sheets for some schools, with varying
\* columns (a sheet with no record, only its header, among them)
InitAgg ==
    /\ Fresh
    /\ dir_exists = TRUE
    /\ \/ listing \in ScanOrders(Directory(AllNfc, NominalTemps, "nfc", AllNfc,
                                           NominalWeights))
       \/ \E present \in (SUBSET Schools) \ {Schools} :
          \E temps \in Tables(present, MaxRecords) :
             listing \in ScanOrders(Directory(Only(present), Among(present, temps),
                                              "nfc", AllNfc, NominalWeights))
       \/ \E k \in Schools, present \in SUBSET Schools :
          \E weights \in Tables(present, MaxWeights) :
             listing \in ScanOrders(Directory(Only({k}), NominalTemps, "nfc",
                                              Only(present), Among(present, weights)))

(***************************************************************************)
(* The script run, top to bottom.                                          *)
(***************************************************************************)
\* line 103
LoadEnvironment ==
    /\ pc = "start"
    /\ LET r == load_environment_data(dir_exists, listing)
       IN /\ env_data' = r.result
          /\ errors' = errors \o r.errors
    /\ pc' = "env_loaded"
    /\ UNCHANGED <<dir_exists, listing, growth_data, metrics, env_summary,
                   growth_summary, key_error>>

\* line 104
LoadGrowth ==
    /\ pc = "env_loaded"
    /\ LET r == load_growth_data(listing)
       IN /\ growth_data' = r.result
          /\ errors' = errors \o r.errors
    /\ pc' = "loaded"
    /\ UNCHANGED <<dir_exists, listing, env_data, metrics, env_summary,
                   growth_summary, key_error>>

\* MustStop, were the two tests joined by `and`
MustStopBoth(env, growth) == env.none /\ growth.none

\* line 106
MustStop(env, growth) == env.none \/ growth.none

\* line 107
StopError == [fn |-> "main", kind |-> "required_data_missing", file |-> <<>>]

\* lines 106-108
Stop ==
    /\ pc = "loaded"
    /\ MustStop(env_data, growth_data)
    /\ errors' = Append(errors, StopError)
    /\ pc' = "stopped"
    /\ UNCHANGED <<dir_exists, listing, env_data, growth_data, metrics, env_summary,
                   growth_summary, key_error>>

\* lines 110-119: title, sidebar, tabs
Proceed ==
    /\ pc = "loaded"
    /\ ~MustStop(env_data, growth_data)
    /\ pc' = "tab1"
    /\ UNCHANGED <<dir_exists, listing, env_data, growth_data, errors, metrics,
                   env_summary, growth_summary, key_error>>

\* lines 136-140: growth_data[school] for a school that is no key
RenderTab1KeyError ==
    /\ pc = "tab1"
    /\ Schools \ Keys(growth_data) # {}
    /\ key_error' = FirstMissing(growth_data.dict)
    /\ pc' = "crashed"
    /\ UNCHANGED <<dir_exists, listing, env_data, growth_data, errors, metrics,
                   env_summary, growth_summary>>

\* lines 122-161
RenderTab1 ==
    /\ pc = "tab1"
    /\ Schools \ Keys(growth_data) = {}
    /\ metrics' = Metrics(env_data, growth_data)
    /\ pc' = "tab2"
    /\ UNCHANGED <<dir_exists, listing, env_data, growth_data, errors,
                   env_summary, growth_summary, key_error>>

\* lines 170-179: env_data[school] for a school that is no key
RenderTab2KeyError ==
    /\ pc = "tab2"
    /\ Schools \ Keys(env_data) # {}
    /\ key_error' = FirstMissing(env_data.dict)
    /\ pc' = "crashed"
    /\ UNCHANGED <<dir_exists, listing, env_data, growth_data, errors, metrics,
                   env_summary, growth_summary>>

\* lines 164-303.  The time series, the raw tables and the download read
\* env_data[selected_school] only after env_summary was built from every
\* school, so they add no lookup that can fail and no state.
RenderTab2 ==
    /\ pc = "tab2"
    /\ Schools \ Keys(env_data) = {}
    /\ env_summary' = EnvSummary(env_data.dict)
    /\ pc' = "tab3"
    /\ UNCHANGED <<dir_exists, listing, env_data, growth_data, errors, metrics,
                   growth_summary, key_error>>

\* lines 306-478: every school is a key of growth_data here, tab 1 has read
\* them all
RenderTab3 ==
    /\ pc = "tab3"
    /\ growth_summary' = GrowthSummary(growth_data.dict)
    /\ pc' = "done"
    /\ UNCHANGED <<dir_exists, listing, env_data, growth_data, errors, metrics,
                   env_summary, key_error>>

Next ==
    \/ LoadEnvironment
    \/ LoadGrowth
    \/ Stop
    \/ Proceed
    \/ RenderTab1KeyError
    \/ RenderTab1
    \/ RenderTab2KeyError
    \/ RenderTab2
    \/ RenderTab3

Spec == Init /\ [][Next]_vars
SpecAgg == InitAgg /\ [][Next]_vars

(***************************************************************************)
(* Vocabulary of the properties.                                           *)
(***************************************************************************)
EnvReturned == pc # "start"
BothReturned == pc \notin {"start", "env_loaded"}
Rendering == pc \in {"tab1", "tab2", "tab3", "done", "crashed"}

\* the name contains the school's name, in composed or in decomposed form
NameContains(k, text) ==
    \/ Contains(school_nfc[k], NFC(text))
    \/ Contains(school_nfd[k], NFD(text))

\* entry f is the environment file of school k, under either form of its name
EnvFileNames == [k \in Schools |-> {NFC(EnvFileName(k)), NFD(EnvFileName(k))}]
IsEnvFileOf(f, k) == f.name \in EnvFileNames[k]

Range(s) == {s[i] : i \in 1..Len(s)}
ErrorsOf(fn) == SelectSeq(errors, LAMBDA e : e.fn = fn)

\* the workbook load_growth_data opens, when the glob finds one
BookFound == GrowthGlob(listing) # <<>>
Book == GrowthGlob(listing)[1]
SheetsOf(k) == {sh \in Range(Book.table) : NameContains(k, sh.name)}
SomeSheetFails ==
    \E sh \in Range(Book.table) : ~sh.parses /\ \E k \in Schools : NameContains(k, sh.name)

(***************************************************************************)
(* C1.  Partial loading does not crash rendering: when both loaders        *)
(* return a non-empty mapping over a proper subset of the schools, the     *)
(* aggregation steps never end in a lookup of a missing school key.        *)
(***************************************************************************)
BothPartial ==
    /\ ~env_data.none /\ Keys(env_data) # {} /\ Keys(env_data) # Schools
    /\ ~growth_data.none /\ Keys(growth_data) # {} /\ Keys(growth_data) # Schools

C1_PartialLoadRenders ==
    (BothReturned /\ BothPartial) => (pc # "crashed" /\ key_error = 0)

(***************************************************************************)
(* C2.  Normalisation-independent resolution: a readable environment file  *)
(* of a school is found and mapped to that school whether its name is      *)
(* stored composed or decomposed.                                          *)
(***************************************************************************)
C2_BothFormsResolved ==
    EnvReturned =>
        \A k \in Schools : \A f \in Range(listing) :
            (IsEnvFileOf(f, k) /\ f.parses) =>
                (k \in Keys(env_data) /\ env_data.dict[k] = f.table)

(***************************************************************************)
(* C3 as stated.  Tagging invariant: every record of the table stored      *)
(* under key k carries a site-identifier field whose value is k.           *)
(***************************************************************************)
Tagged(r) ==
    \A k \in Keys(r) : \A j \in 1..Len(r.dict[k]) :
        /\ "school" \in DOMAIN r.dict[k][j]
        /\ r.dict[k][j]["school"] = k

C3_RecordsTagged == BothReturned => (Tagged(env_data) /\ Tagged(growth_data))

(***************************************************************************)
(* C3 as amended.  The table stored under key k by either loader is        *)
(* exactly the table parsed from a globbed file (a sheet of the globbed    *)
(* workbook) whose name contains the name of school k; nothing is added    *)
(* to its records.                                                         *)
(***************************************************************************)
C3_StoredAsParsed ==
    BothReturned =>
        /\ \A k \in Keys(env_data) :
              \E f \in Range(EnvGlob(listing)) :
                  /\ f.parses
                  /\ env_data.dict[k] = f.table
                  /\ NameContains(k, Stem(f.name))
        /\ \A k \in Keys(growth_data) :
              /\ BookFound
              /\ \E sh \in Range(Book.table) :
                    /\ sh.parses
                    /\ growth_data.dict[k] = sh.table
                    /\ NameContains(k, sh.name)

C3_Witness ==
    /\ pc = "loaded"
    /\ Keys(env_data) = Schools
    /\ Keys(growth_data) = Schools

(***************************************************************************)
(* C4.  Absence is always surfaced: once load_environment_data has         *)
(* returned, every school has an entry or an error attributable to it      *)
(* was reported by the load.                                               *)
(***************************************************************************)
C4_AbsenceSurfaced ==
    EnvReturned =>
        \A k \in Schools :
            \/ k \in Keys(env_data)
            \/ \E e \in Range(ErrorsOf("load_environment_data")) :
                  e.kind = "no_data_dir" \/ NameContains(k, e.file)

(***************************************************************************)
(* C5 as stated.  A sheet whose parse fails is isolated: every other       *)
(* matched sheet that parses is in the mapping load_growth_data returns.   *)
(***************************************************************************)
C5_SheetFailureIsolated ==
    (BothReturned /\ BookFound /\ Book.parses /\ SomeSheetFails) =>
        \A k \in Schools : \A sh \in SheetsOf(k) :
            sh.parses => (k \in Keys(growth_data) /\ growth_data.dict[k] = sh.table)

(***************************************************************************)
(* C5 as amended.  When the workbook is found and the parse of one matched *)
(* sheet fails, load_growth_data reports one error and returns None: the   *)
(* sheets read before are discarded with it, and the run stops before      *)
(* rendering.                                                              *)
(***************************************************************************)
C5_SheetFailureDiscardsAll ==
    (BothReturned /\ BookFound /\ Book.parses /\ SomeSheetFails) =>
        /\ growth_data = None
        /\ ErrorsOf("load_growth_data") = <<GrowthError("load_failed")>>
        /\ ~Rendering

C5_Witness ==
    /\ pc = "stopped"
    /\ BookFound /\ Book.parses
    /\ \E k1, k2, k3 \in Schools :
          /\ k1 < k2 /\ k2 < k3
          /\ \E sh \in SheetsOf(k1) : sh.parses
          /\ \E sh \in SheetsOf(k2) : ~sh.parses
          /\ \E sh \in SheetsOf(k3) : sh.parses
    /\ growth_data = None

(***************************************************************************)
(* Means stated without the program's operators: the sum and the count of  *)
(* a column, as exact fractions compared by cross-multiplication.          *)
(***************************************************************************)
Total(d, k, field) == SumSeq(Column(d[k], field))
Count(d, k) == Len(d[k])

RECURSIVE ProductOfCounts(_, _)
ProductOfCounts(d, S) ==
    IF S = {} THEN 1
    ELSE LET k == CHOOSE x \in S : TRUE IN Count(d, k) * ProductOfCounts(d, S \ {k})

\* sum over k in S of Total(k)/Count(k), times the product of all counts of K
RECURSIVE ScaledSumOfMeans(_, _, _, _)
ScaledSumOfMeans(d, K, S, field) ==
    IF S = {} THEN 0
    ELSE LET k == CHOOSE x \in S : TRUE
         IN Total(d, k, field) * ProductOfCounts(d, K \ {k})
            + ScaledSumOfMeans(d, K, S \ {k}, field)

RECURSIVE SumOver(_, _, _)
SumOver(d, S, field) ==
    IF S = {} THEN 0
    ELSE LET k == CHOOSE x \in S : TRUE IN Total(d, k, field) + SumOver(d, S \ {k}, field)

RECURSIVE CountOver(_, _)
CountOver(d, S) ==
    IF S = {} THEN 0
    ELSE LET k == CHOOSE x \in S : TRUE IN Count(d, k) + CountOver(d, S \ {k})

\* the float f is the fraction p / q up to floating-point rounding: p / q
\* lies within one part in 2^14 of f, f read to its leading 16 bits m
Near(f, p, q) ==
    /\ ~f.nan
    /\ IF IsZero(f) THEN p = 0
       ELSE LET m == f.hi \div 2048
                s == f.exp + 37
            IN IF s <= 0
               THEN (m - 1) * q < p * 2^(0 - s) /\ p * 2^(0 - s) < (m + 2) * q
               ELSE (m - 1) * 2^s * q < p /\ p < (m + 2) * 2^s * q

\* avg is the unweighted mean of the per-school means of d
IsMeanOfMeans(avg, d, field) ==
    LET K == DOMAIN d
    IN IF \E k \in K : Count(d, k) = 0 THEN avg.nan
       ELSE Near(avg, ScaledSumOfMeans(d, K, K, field), Cardinality(K) * ProductOfCounts(d, K))

\* avg is the mean of the concatenation of the tables of d
IsPooledMean(avg, d, field) ==
    Near(avg, SumOver(d, DOMAIN d, field), CountOver(d, DOMAIN d))

EqualCounts(d) ==
    \E k \in DOMAIN d : Count(d, k) > 0 /\ \A j \in DOMAIN d : Count(d, j) = Count(d, k)

(***************************************************************************)
(* C6 as stated.  The overall average temperature and humidity of the      *)
(* metric cards are the means over the concatenation of the records of     *)
(* all present schools, whatever the (non-zero) number of records of each. *)
(***************************************************************************)
C6_AverageIsPooledMean ==
    (metrics.shown /\ \A k \in Keys(env_data) : Count(env_data.dict, k) > 0) =>
        /\ IsPooledMean(metrics.avg_temp, env_data.dict, "temperature")
        /\ IsPooledMean(metrics.avg_humidity, env_data.dict, "humidity")

(***************************************************************************)
(* C6 as amended.  The overall averages are, up to floating-point          *)
(* rounding, the unweighted means of the per-school means over the         *)
(* present schools (NaN when a present school has no record); up to that   *)
(* rounding they are the pooled means when every present school has the    *)
(* same non-zero number of records.                                        *)
(***************************************************************************)
C6_AverageIsMeanOfMeans ==
    metrics.shown =>
        /\ IsMeanOfMeans(metrics.avg_temp, env_data.dict, "temperature")
        /\ IsMeanOfMeans(metrics.avg_humidity, env_data.dict, "humidity")
        /\ EqualCounts(env_data.dict) =>
              /\ IsPooledMean(metrics.avg_temp, env_data.dict, "temperature")
              /\ IsPooledMean(metrics.avg_humidity, env_data.dict, "humidity")

C6_Witness ==
    /\ metrics.shown
    /\ Keys(env_data) # Schools
    /\ \E k, j \in Keys(env_data) :
          Count(env_data.dict, k) > 0 /\ Count(env_data.dict, j) > Count(env_data.dict, k)
    /\ ~metrics.avg_temp.nan
    /\ ~IsPooledMean(metrics.avg_temp, env_data.dict, "temperature")

(***************************************************************************)
(* C7 as stated.  With every school loaded (and a mean fresh weight        *)
(* defined for one of them at least), the school reported as optimal has   *)
(* the greatest mean fresh weight, it is the first such school in          *)
(* SCHOOL_EC order, and the reported EC is its target EC.  The means 2.1,  *)
(* 3.4, 2.8, 1.9 give the second school, EC 2.0.                           *)
(***************************************************************************)
WeightLeq(d, a, b) ==
    Total(d, a, "fresh_weight") * Count(d, b) <= Total(d, b, "fresh_weight") * Count(d, a)

\* the schools whose sheet holds a record: those with a mean fresh weight
WithRecords(d) == {k \in Schools : Count(d, k) > 0}

\* best is the first school, in SCHOOL_EC order, of greatest mean among S
FirstMaximum(d, best, S) ==
    /\ best \in S
    /\ \A k \in S : WeightLeq(d, k, best)
    /\ \A k \in S : k < best => ~WeightLeq(d, best, k)

ExampleMeans ==
    <<FloatDivInt(FromInt(21), 10), FloatDivInt(FromInt(34), 10),
      FloatDivInt(FromInt(28), 10), FloatDivInt(FromInt(19), 10)>>

C7_OptimalIsFirstMaximum ==
    /\ SCHOOL_EC[optimal_school(ExampleMeans)].ec = 20
    /\ (metrics.shown /\ WithRecords(growth_data.dict) # {}) =>
          /\ FirstMaximum(growth_data.dict, metrics.optimal_school,
                          WithRecords(growth_data.dict))
          /\ metrics.optimal_ec = SCHOOL_EC[metrics.optimal_school].ec

(***************************************************************************)
(* C7 as amended.  With every school loaded, the reported EC is the        *)
(* target EC of the reported school, and the reported school is: the       *)
(* first school of SCHOOL_EC, whatever the other means, when its sheet     *)
(* holds no record (its mean is NaN, and no later mean compares greater);  *)
(* otherwise the first school of greatest mean fresh weight among the      *)
(* schools whose sheets hold a record.  The means 2.1, 3.4, 2.8, 1.9 give  *)
(* the second school, EC 2.0.                                              *)
(***************************************************************************)
C7_OptimalIsFirstUnlessNaNLeads ==
    /\ SCHOOL_EC[optimal_school(ExampleMeans)].ec = 20
    /\ metrics.shown =>
          LET d == growth_data.dict
              best == metrics.optimal_school
          IN /\ best \in Schools
             /\ metrics.optimal_ec = SCHOOL_EC[best].ec
             /\ IF Count(d, 1) = 0 THEN best = 1
                ELSE FirstMaximum(d, best, WithRecords(d))

\* the first sheet holds no record, the others do, and the second and the
\* fourth share the greatest mean: the first school is reported
C7_Witness ==
    /\ metrics.shown
    /\ WithRecords(growth_data.dict) = {2, 3, 4}
    /\ metrics.optimal_school = 1
    /\ metrics.optimal_ec = 10
    /\ FirstMaximum(growth_data.dict, 2, {2, 3, 4})
    /\ WeightLeq(growth_data.dict, 2, 4)
    /\ ~WeightLeq(growth_data.dict, 2, 3)

(***************************************************************************)
(* C8.  Independent failure domains: when no workbook matches,             *)
(* load_growth_data reports exactly one error and returns no school, and   *)
(* load_environment_data returns what it returns for the same directory    *)
(* with the workbook in it.                                                *)
(***************************************************************************)
WithBook(dir) ==
    dir \o Entry("nfc", BookName,
                 Flatten([k \in Schools |->
                     Entry("nfc", SCHOOL_EC[k].name, GrowthRows(NominalWeights[k]))]))

C8_MissingBookIsolated ==
    (BothReturned /\ ~BookFound) =>
        /\ growth_data = None
        /\ ErrorsOf("load_growth_data") = <<GrowthError("file_not_found")>>
        /\ GrowthGlob(WithBook(listing)) # <<>>
        /\ env_data = load_environment_data(dir_exists, WithBook(listing)).result

C8_Witness ==
    /\ pc = "stopped"
    /\ ~BookFound
    /\ dir_exists
    /\ Keys(env_data) # {}
    /\ growth_data = None

(***************************************************************************)
(* C9.  Empty results halt rendering: the rendering stage is reached only  *)
(* when both loads returned at least one school; when either returned      *)
(* none, an error is shown and the run stops with no aggregate computed.   *)
(***************************************************************************)
C9_EmptyResultHalts ==
    /\ Rendering =>
          /\ ~env_data.none /\ Keys(env_data) # {}
          /\ ~growth_data.none /\ Keys(growth_data) # {}
    /\ (pc # "loaded" /\ BothReturned /\ (Keys(env_data) = {} \/ Keys(growth_data) = {})) =>
          /\ pc = "stopped"
          /\ errors # <<>> /\ errors[Len(errors)] = StopError
          /\ metrics = NoMetrics /\ env_summary = <<>> /\ growth_summary = <<>>
          /\ key_error = 0
    /\ pc = "stopped" => (env_data.none \/ growth_data.none)

C9_Witness ==
    /\ pc = "stopped"
    /\ dir_exists
    /\ env_data.none
    /\ ~growth_data.none
    /\ errors = <<StopError>>

(***************************************************************************)
(* C10.  A missing environment file affects only its own school: for the   *)
(* directory without the environment file of one school,                   *)
(* load_environment_data returns a mapping without that school and with    *)
(* the same table for every other school, provided another school remains. *)
(***************************************************************************)
Without(dir, i) == SubSeq(dir, 1, i - 1) \o SubSeq(dir, i + 1, Len(dir))

C10_MissingFileFrame ==
    pc = "env_loaded" =>
        \A i \in 1..Len(listing) : \A k \in Schools :
            IsEnvFileOf(listing[i], k) =>
                LET smaller == load_environment_data(dir_exists, Without(listing, i)).result
                IN Keys(env_data) \ {k} # {} =>
                      /\ k \notin Keys(smaller)
                      /\ Keys(smaller) = Keys(env_data) \ {k}
                      /\ \A t \in Keys(smaller) : smaller.dict[t] = env_data.dict[t]

C10_Witness ==
    /\ pc = "env_loaded"
    /\ Keys(env_data) = Schools
    /\ \E i \in 1..Len(listing) :
          /\ IsEnvFileOf(listing[i], 2)
          /\ Keys(load_environment_data(dir_exists, Without(listing, i)).result) = {1, 3, 4}

====
